---- MODULE Spec2Model ----
(***************************************************************************)
(* Model of scripts/coroutine-wrapper.py: the generator of synchronous     *)
(* bridge functions for block-layer coroutines.  Text is a sequence of     *)
(* one-character strings; the two regular expressions, the format strings  *)
(* and the naming helpers are computed character by character.              *)
(***************************************************************************)
EXTENDS Integers, Sequences, FiniteSets, TLC

\* ------------------------------------------------------------- characters
Lower == {"a", "b", "c", "d", "e", "f", "g", "h", "i", "j", "k", "l", "m",
          "n", "o", "p", "q", "r", "s", "t", "u", "v", "w", "x", "y", "z"}

Digit == {"0", "1", "2", "3", "4", "5", "6", "7", "8", "9"}

\* [a-z0-9_]
NameChar == Lower \cup Digit \cup {"_"}

\* \s of the re module and the characters str.strip() removes
Space == {" ", "\n", "\t"}

\* [ *]
TypeEnd == {" ", "*"}

UpperOf == [c \in Lower |->
             CASE c = "a" -> "A" [] c = "b" -> "B" [] c = "c" -> "C" [] c = "d" -> "D"
               [] c = "e" -> "E" [] c = "f" -> "F" [] c = "g" -> "G" [] c = "h" -> "H"
               [] c = "i" -> "I" [] c = "j" -> "J" [] c = "k" -> "K" [] c = "l" -> "L"
               [] c = "m" -> "M" [] c = "n" -> "N" [] c = "o" -> "O" [] c = "p" -> "P"
               [] c = "q" -> "Q" [] c = "r" -> "R" [] c = "s" -> "S" [] c = "t" -> "T"
               [] c = "u" -> "U" [] c = "v" -> "V" [] c = "w" -> "W" [] c = "x" -> "X"
               [] c = "y" -> "Y" [] c = "z" -> "Z"]

\* str.upper() on one character
Upper(c) == IF c \in Lower THEN UpperOf[c] ELSE c

\* ------------------------------------------------------------ str methods
SetMin(S) == CHOOSE x \in S : \A y \in S : x <= y

SetMax(S) == CHOOSE x \in S : \A y \in S : x >= y

RECURSIVE LStrip(_)
LStrip(s) == IF s # <<>> /\ Head(s) \in Space THEN LStrip(Tail(s)) ELSE s

RECURSIVE RStrip(_)
RStrip(s) == IF s # <<>> /\ s[Len(s)] \in Space
             THEN RStrip(SubSeq(s, 1, Len(s) - 1)) ELSE s

\* str.strip()
Strip(s) == RStrip(LStrip(s))

\* str.split(c): always at least one piece
RECURSIVE Split(_, _)
Split(s, c) ==
    LET at == {i \in 1..Len(s) : s[i] = c}
    IN  IF at = {} THEN <<s>>
        ELSE LET i == SetMin(at)
             IN  <<SubSeq(s, 1, i - 1)>> \o Split(SubSeq(s, i + 1, Len(s)), c)

\* sep.join(parts)
RECURSIVE Join(_, _)
Join(parts, sep) ==
    IF parts = <<>> THEN <<>>
    ELSE IF Len(parts) = 1 THEN parts[1]
    ELSE parts[1] \o sep \o Join(Tail(parts), sep)

\* str.startswith(p)
StartsWith(s, p) == Len(s) >= Len(p) /\ SubSeq(s, 1, Len(p)) = p

\* the literal lit stands in text at position i
LitAt(text, i, lit) ==
    i + Len(lit) - 1 <= Len(text) /\ SubSeq(text, i, i + Len(lit) - 1) = lit

\* last index of the longest run of characters of class C starting at i
\* (i - 1 when the run is empty): a greedy C* of a regular expression
RunEnd(text, i, C) ==
    LET stops == {j \in i..Len(text) : text[j] \notin C}
    IN  IF stops = {} THEN Len(text) ELSE SetMin(stops) - 1

\* the same for a negated one-character class [^c]*
RunEndNot(text, i, c) ==
    LET stops == {j \in i..Len(text) : text[j] = c}
    IN  IF stops = {} THEN Len(text) ELSE SetMin(stops) - 1

\* ---------------------------------------------------------------- ParamDecl
\* param_re with a lazy type group, (?P<type>.*?[ *]): the first split wins
param_re_lazy(s) ==
    LET ks == {k \in 1..(Len(s) - 1) :
                  /\ s[k] \in TypeEnd
                  /\ s[k + 1] \in Lower
                  /\ \A j \in 1..k : s[j] # "\n"}
    IN  IF ks = {} THEN [ok |-> FALSE]
        ELSE LET k == SetMin(ks)
                 e == RunEnd(s, k + 1, NameChar)
             IN  [ok   |-> TRUE,
                  decl |-> SubSeq(s, 1, e),
                  type |-> SubSeq(s, 1, k),
                  name |-> SubSeq(s, k + 1, e)]

\* param_re.match(s): (?P<decl>(?P<type>.*[ *])(?P<name>[a-z][a-z0-9_]*)),
\* anchored at the start only; the greedy .* takes the last possible split
\* and '.' does not match a newline
param_re(s) ==
    LET ks == {k \in 1..(Len(s) - 1) :
                  /\ s[k] \in TypeEnd
                  /\ s[k + 1] \in Lower
                  /\ \A j \in 1..k : s[j] # "\n"}
    IN  IF ks = {} THEN [ok |-> FALSE]
        ELSE LET k == SetMax(ks)
                 e == RunEnd(s, k + 1, NameChar)
             IN  [ok   |-> TRUE,
                  decl |-> SubSeq(s, 1, e),
                  type |-> SubSeq(s, 1, k),
                  name |-> SubSeq(s, k + 1, e)]

WrongParameter == <<"W", "r", "o", "n", "g", " ", "p", "a", "r", "a", "m", "e", "t", "e", "r", " ", "d", "e", "c", "l", "a", "r", "a", "t", "i", "o", "n", ":", " ", "\"">>

\* ParamDecl.__init__: the parsed parameter, or the ValueError it raises
ParamDecl(param_decl) ==
    LET m == param_re(Strip(param_decl))
    IN  IF ~m.ok
        THEN [ok |-> FALSE, exc |-> "ValueError",
              msg |-> WrongParameter \o param_decl \o <<"\"">>]
        ELSE [ok |-> TRUE, decl |-> m.decl, type |-> m.type, name |-> m.name]

\* ----------------------------------------------------------------- FuncDecl
\* FuncDecl.__init__: the list comprehension raises at the first fragment
\* ParamDecl rejects
FuncDecl(return_type, name, args) ==
    LET frags  == Split(args, ",")
        parsed == [i \in 1..Len(frags) |-> ParamDecl(Strip(frags[i]))]
        bad    == {i \in 1..Len(frags) : ~parsed[i].ok}
    IN  IF bad # {}
        THEN [ok |-> FALSE, exc |-> parsed[SetMin(bad)].exc,
              msg |-> parsed[SetMin(bad)].msg]
        ELSE [ok |-> TRUE,
              return_type |-> Strip(return_type),
              name |-> Strip(name),
              args |-> parsed]

\* a format string is a sequence of pieces: literal text followed by a
\* replacement field ("" for none); format.format_map(arg.__dict__)
RECURSIVE FormatMap(_, _)
FormatMap(format, arg) ==
    IF format = <<>> THEN <<>>
    ELSE Head(format).lit
         \o (IF Head(format).fld = "" THEN <<>> ELSE arg[Head(format).fld])
         \o FormatMap(Tail(format), arg)

\* gen_list joining the arguments last to first
gen_list_reversed(func, format) ==
    Join([i \in 1..Len(func.args) |->
            FormatMap(format, func.args[Len(func.args) + 1 - i])], <<",", " ">>)

\* FuncDecl.gen_list
gen_list(func, format) ==
    Join([i \in 1..Len(func.args) |-> FormatMap(format, func.args[i])], <<",", " ">>)

\* FuncDecl.gen_block
gen_block(func, format) ==
    Join([i \in 1..Len(func.args) |-> FormatMap(format, func.args[i])], <<"\n">>)

\* ------------------------------------------------------------- the scanner
Marker == <<"g", "e", "n", "e", "r", "a", "t", "e", "d", "_", "c", "o", "_", "w", "r", "a", "p", "p", "e", "r">>

\* func_decl_re with an argument list that stays on one line: [^)\n]*
func_decl_re_one_line(text, i) ==
    LET p1 == RunEnd(text, i + 3, Space) + 1
        p2 == RunEnd(text, p1 + Len(Marker), Space) + 1
        e  == RunEnd(text, p2, NameChar)
        a  == LET stops == {j \in (e + 2)..Len(text) : text[j] \in {")", "\n"}}
              IN  IF stops = {} THEN Len(text) ELSE SetMin(stops) - 1
    IN  IF /\ (i = 1 \/ text[i - 1] = "\n")
           /\ LitAt(text, i, <<"i", "n", "t">>)
           /\ LitAt(text, p1, Marker)
           /\ p2 <= Len(text) /\ text[p2] \in Lower
           /\ LitAt(text, e + 1, <<"(">>)
           /\ LitAt(text, a + 1, <<")", ";">>)
           /\ (a + 2 = Len(text) \/ text[a + 3] = "\n")
        THEN [ok |-> TRUE, wrapper_name |-> SubSeq(text, p2, e),
              args |-> SubSeq(text, e + 2, a), end |-> a + 2]
        ELSE [ok |-> FALSE]

\* func_decl_re matched at position i of text (re.MULTILINE):
\* ^int\s*generated_co_wrapper\s*(?P<wrapper_name>[a-z][a-z0-9_]*)
\* \((?P<args>[^)]*)\);$
func_decl_re(text, i) ==
    LET p1 == RunEnd(text, i + 3, Space) + 1
        p2 == RunEnd(text, p1 + Len(Marker), Space) + 1
        e  == RunEnd(text, p2, NameChar)
        a  == RunEndNot(text, e + 2, ")")
    IN  IF /\ (i = 1 \/ text[i - 1] = "\n")
           /\ LitAt(text, i, <<"i", "n", "t">>)
           /\ LitAt(text, p1, Marker)
           /\ p2 <= Len(text) /\ text[p2] \in Lower
           /\ LitAt(text, e + 1, <<"(">>)
           /\ LitAt(text, a + 1, <<")", ";">>)
           /\ (a + 2 = Len(text) \/ text[a + 3] = "\n")
        THEN [ok |-> TRUE, wrapper_name |-> SubSeq(text, p2, e),
              args |-> SubSeq(text, e + 2, a), end |-> a + 2]
        ELSE [ok |-> FALSE]

\* the positions >= pos where func_decl_re matches
MatchStarts(text, pos) == {i \in pos..Len(text) : func_decl_re(text, i).ok}

\* ------------------------------------------------------------ naming helpers
\* snake_to_camel: w[0] raises IndexError on an empty word
snake_to_camel(func_name) ==
    LET words == Split(func_name, "_")
        cap(w) == <<Upper(w[1])>> \o Tail(w)
    IN  IF \E i \in 1..Len(words) : words[i] = <<>>
        THEN [ok |-> FALSE, exc |-> "IndexError",
              msg |-> <<"s", "t", "r", "i", "n", "g", " ", "i", "n", "d", "e", "x", " ", "o", "u", "t", " ", "o", "f", " ", "r", "a", "n", "g", "e">>]
        ELSE [ok |-> TRUE,
              val |-> Join([i \in 1..Len(words) |-> cap(words[i])], <<>>)]

\* ------------------------------------------------------------- gen_header
\* the text gen_header returns, line by line: the notice, the copyright
\* block cut out of the module docstring, the three include directives
gen_header ==
    << "/*",
       " * File is generated by scripts/coroutine-wrapper.py",
       " *",
       " * Copyright (c) 2020 Virtuozzo International GmbH.",
       " *",
       " * This program is free software; you can redistribute it and/or modify",
       " * it under the terms of the GNU General Public License as published by",
       " * the Free Software Foundation; either version 2 of the License, or",
       " * (at your option) any later version.",
       " *",
       " * This program is distributed in the hope that it will be useful,",
       " * but WITHOUT ANY WARRANTY; without even the implied warranty of",
       " * MERCHANTABILITY or FITNESS FOR A PARTICULAR PURPOSE.  See the",
       " * GNU General Public License for more details.",
       " *",
       " * You should have received a copy of the GNU General Public License",
       " * along with this program.  If not, see <http://www.gnu.org/licenses/>.",
       " */",
       "",
       "#include \"qemu/osdep.h\"",
       "#include \"block/coroutines.h\"",
       "#include \"block/block-gen.h\"" >>

\* ------------------------------------------------------------- gen_wrapper
BlockDriverStatePtr == <<"B", "l", "o", "c", "k", "D", "r", "i", "v", "e", "r", "S", "t", "a", "t", "e", " ", "*">>

BdrvChildPtr == <<"B", "d", "r", "v", "C", "h", "i", "l", "d", " ", "*">>

BdrvPrefix == <<"b", "d", "r", "v", "_">>

BdrvCoPrefix == <<"b", "d", "r", "v", "_", "c", "o", "_">>

\* the format strings gen_wrapper hands to gen_block and gen_list
FmtStructField == <<[lit |-> <<" ", " ", " ", " ">>, fld |-> "decl"], [lit |-> <<";">>, fld |-> ""]>>

FmtEntryArg == <<[lit |-> <<"s", "-", ">">>, fld |-> "name"]>>

FmtDecl == <<[lit |-> <<>>, fld |-> "decl"]>>

FmtName == <<[lit |-> <<>>, fld |-> "name"]>>

FmtInitField == <<[lit |-> <<" ", " ", " ", " ", " ", " ", " ", " ", " ", " ", " ", " ", ".">>, fld |-> "name"],
                  [lit |-> <<" ", "=", " ">>, fld |-> "name"],
                  [lit |-> <<",">>, fld |-> ""]>>

AssertionFailed == [ok |-> FALSE, exc |-> "AssertionError", msg |-> <<>>]

\* the owning handle reached through the first parameter, whatever its name
OwningHandleFromName(func) ==
    IF func.args[1].type = BlockDriverStatePtr THEN <<"b", "s">> ELSE func.args[1].name \o <<"-", ">", "b", "s">>

\* the owning-handle expression of line 121
OwningHandle(func) ==
    IF func.args[1].type = BlockDriverStatePtr THEN <<"b", "s">> ELSE <<"c", "h", "i", "l", "d", "-", ">", "b", "s">>

\* the coroutine-variant name without the cut: 'bdrv_co_' + func.name
CoNameUncut(func) == BdrvCoPrefix \o func.name

\* the coroutine-variant name of line 120: 'bdrv_co_' + func.name[5:]
CoName(func) == BdrvCoPrefix \o SubSeq(func.name, 6, Len(func.name))

\* gen_wrapper: the four assertions, then the text of the template with its
\* replacement fields filled in; the record holds the variable parts of the
\* template, each as the text that stands in the output
gen_wrapper(func) ==
    IF ~StartsWith(func.name, BdrvPrefix) THEN AssertionFailed
    ELSE IF StartsWith(func.name, BdrvCoPrefix) THEN AssertionFailed
    ELSE IF func.return_type # <<"i", "n", "t">> THEN AssertionFailed
    ELSE IF func.args[1].type \notin {BlockDriverStatePtr, BdrvChildPtr}
    THEN AssertionFailed
    ELSE
    LET name == CoName(func)
        bs == OwningHandle(func)
        struct_name == snake_to_camel(name)
    IN  IF ~struct_name.ok THEN struct_name
        ELSE [ok |-> TRUE,
              comment     |-> <<" ", "*", " ", "W", "r", "a", "p", "p", "e", "r", "s", " ", "f", "o", "r", " ">> \o name,
              struct_name |-> struct_name.val,
              struct_body |-> <<" ", " ", " ", " ", "B", "d", "r", "v", "P", "o", "l", "l", "C", "o", " ", "p", "o", "l", "l", "_", "s", "t", "a", "t", "e", ";", "\n">>
                              \o gen_block(func, FmtStructField),
              entry_name  |-> name \o <<"_", "e", "n", "t", "r", "y">>,
              entry_call  |-> name \o <<"(">> \o gen_list(func, FmtEntryArg) \o <<")">>,
              signature   |-> <<"i", "n", "t", " ">> \o func.name \o <<"(">>
                              \o gen_list(func, FmtDecl) \o <<")">>,
              fast_call   |-> name \o <<"(">> \o gen_list(func, FmtName) \o <<")">>,
              bs          |-> bs,
              init_body   |-> gen_block(func, FmtInitField),
              create      |-> name \o <<"_", "e", "n", "t", "r", "y">>]

\* ------------------------------------------------------------------ inputs
\* number of statements in the text read from standard input
MaxDecls == 2

\* one statement of the input, as it stands on its line
Stmt(indent, return_type, name, args) ==
    indent \o return_type \o <<" ">> \o Marker \o <<" ">> \o name
           \o <<"(">> \o args \o <<")", ";">>

\* the statements the input is made of: declarations the generator accepts,
\* declarations it rejects and marked declarations the scanner does not match
StmtPreadv == Stmt(<<>>, <<"i", "n", "t">>, <<"b", "d", "r", "v", "_", "p", "r", "e", "a", "d", "v">>,
                   <<"B", "l", "o", "c", "k", "D", "r", "i", "v", "e", "r", "S", "t", "a", "t", "e", " ", "*", "b", "s", ",", " ", "i", "n", "t", "6", "4", "_", "t", " ", "o", "f", "f", "s", "e", "t", ",", " ", "Q", "E", "M", "U", "I", "O", "V", "e", "c", "t", "o", "r", " ", "*", "q", "i", "o", "v">>)

StmtChild == Stmt(<<>>, <<"i", "n", "t">>, <<"b", "d", "r", "v", "_", "b">>, <<"B", "d", "r", "v", "C", "h", "i", "l", "d", " ", "*", "c", "h", "i", "l", "d", ",", " ", "u", "n", "s", "i", "g", "n", "e", "d", " ", "i", "n", "t", " ", "x">>)

StmtChildNamed == Stmt(<<>>, <<"i", "n", "t">>, <<"b", "d", "r", "v", "_", "c">>, <<"B", "d", "r", "v", "C", "h", "i", "l", "d", " ", "*", "c">>)

StmtBase == Stmt(<<>>, <<"i", "n", "t">>, <<"b", "d", "r", "v", "_", "a">>, <<"B", "l", "o", "c", "k", "D", "r", "i", "v", "e", "r", "S", "t", "a", "t", "e", " ", "*", "b", "a", "s", "e">>)

StmtAnonymous == Stmt(<<>>, <<"i", "n", "t">>, <<"b", "d", "r", "v", "_", "a">>, <<"B", "l", "o", "c", "k", "D", "r", "i", "v", "e", "r", "S", "t", "a", "t", "e", " ", "*", "b", "s", ",", " ", "u", "n", "s", "i", "g", "n", "e", "d", " ", "i", "n", "t">>)

StmtNoSplit == Stmt(<<>>, <<"i", "n", "t">>, <<"b", "d", "r", "v", "_", "a">>, <<"B", "l", "o", "c", "k", "D", "r", "i", "v", "e", "r", "S", "t", "a", "t", "e", " ", "*", "b", "s", ",", " ", "v", "o", "i", "d">>)

StmtWrongPrefix == Stmt(<<>>, <<"i", "n", "t">>, <<"b", "l", "k", "_", "a">>, <<"B", "l", "o", "c", "k", "D", "r", "i", "v", "e", "r", "S", "t", "a", "t", "e", " ", "*", "b", "s">>)

StmtCoPrefix == Stmt(<<>>, <<"i", "n", "t">>, <<"b", "d", "r", "v", "_", "c", "o", "_", "a">>, <<"B", "l", "o", "c", "k", "D", "r", "i", "v", "e", "r", "S", "t", "a", "t", "e", " ", "*", "b", "s">>)

StmtWrongHandle == Stmt(<<>>, <<"i", "n", "t">>, <<"b", "d", "r", "v", "_", "a">>, <<"i", "n", "t", "6", "4", "_", "t", " ", "o", "f", "f", "s", "e", "t">>)

StmtVoid == Stmt(<<>>, <<"v", "o", "i", "d">>, <<"b", "d", "r", "v", "_", "a">>, <<"B", "l", "o", "c", "k", "D", "r", "i", "v", "e", "r", "S", "t", "a", "t", "e", " ", "*", "b", "s">>)

StmtIndented == Stmt(<<" ">>, <<"i", "n", "t">>, <<"b", "d", "r", "v", "_", "a">>, <<"B", "l", "o", "c", "k", "D", "r", "i", "v", "e", "r", "S", "t", "a", "t", "e", " ", "*", "b", "s">>)

StmtUpperCase == Stmt(<<>>, <<"i", "n", "t">>, <<"b", "d", "r", "v", "_", "A">>, <<"B", "l", "o", "c", "k", "D", "r", "i", "v", "e", "r", "S", "t", "a", "t", "e", " ", "*", "b", "s">>)

StmtFuncPtr == Stmt(<<>>, <<"i", "n", "t">>, <<"b", "d", "r", "v", "_", "a">>, <<"B", "l", "o", "c", "k", "D", "r", "i", "v", "e", "r", "S", "t", "a", "t", "e", " ", "*", "b", "s", ",", " ", "v", "o", "i", "d", " ", "(", "*", "c", "b", ")", "(", "i", "n", "t", " ", "x", ")">>)

StmtEmptyWord == Stmt(<<>>, <<"i", "n", "t">>, <<"b", "d", "r", "v", "_">>, <<"B", "l", "o", "c", "k", "D", "r", "i", "v", "e", "r", "S", "t", "a", "t", "e", " ", "*", "b", "s">>)

Stmts == {StmtPreadv, StmtChild, StmtChildNamed, StmtBase, StmtAnonymous, StmtNoSplit,
          StmtWrongPrefix, StmtCoPrefix, StmtWrongHandle, StmtVoid,
          StmtIndented, StmtUpperCase, StmtFuncPtr, StmtEmptyWord}

\* statements that probe the shape the scanner and ParamDecl accept: the
\* tokens and the argument list spread over several lines, no whitespace
\* between the tokens, a tab before the parameter name, an array suffix, and
\* two names that differ in an underscore before a digit
StmtSpread == <<"i", "n", "t", "\n", "g", "e", "n", "e", "r", "a", "t", "e", "d", "_", "c", "o", "_", "w", "r", "a", "p", "p", "e", "r", "\n", "b", "d", "r", "v", "_", "a", "(", "B", "l", "o", "c", "k", "D", "r", "i", "v", "e", "r", "S", "t", "a", "t", "e", " ", "*", "b", "s", ",", "\n", " ", " ", " ", " ", "i", "n", "t", " ", "x", ")", ";">>

StmtNoSpace == <<"i", "n", "t", "g", "e", "n", "e", "r", "a", "t", "e", "d", "_", "c", "o", "_", "w", "r", "a", "p", "p", "e", "r", "b", "d", "r", "v", "_", "b", "(", "B", "l", "o", "c", "k", "D", "r", "i", "v", "e", "r", "S", "t", "a", "t", "e", " ", "*", "b", "s", ")", ";">>

StmtTab == Stmt(<<>>, <<"i", "n", "t">>, <<"b", "d", "r", "v", "_", "c">>, <<"B", "l", "o", "c", "k", "D", "r", "i", "v", "e", "r", "S", "t", "a", "t", "e", " ", "*", "b", "s", ",", " ", "i", "n", "t", "\t", "x">>)

StmtArray == Stmt(<<>>, <<"i", "n", "t">>, <<"b", "d", "r", "v", "_", "d">>, <<"B", "l", "o", "c", "k", "D", "r", "i", "v", "e", "r", "S", "t", "a", "t", "e", " ", "*", "b", "s", ",", " ", "i", "n", "t", " ", "x", "[", "4", "]">>)

StmtDigitWord == Stmt(<<>>, <<"i", "n", "t">>, <<"b", "d", "r", "v", "_", "a", "_", "1">>, <<"B", "l", "o", "c", "k", "D", "r", "i", "v", "e", "r", "S", "t", "a", "t", "e", " ", "*", "b", "s">>)

StmtDigit == Stmt(<<>>, <<"i", "n", "t">>, <<"b", "d", "r", "v", "_", "a", "1">>, <<"B", "l", "o", "c", "k", "D", "r", "i", "v", "e", "r", "S", "t", "a", "t", "e", " ", "*", "b", "s">>)

ShapeStmts == {StmtPreadv, StmtEmptyWord, StmtSpread, StmtNoSpace, StmtTab,
               StmtArray, StmtDigitWord, StmtDigit}

\* the concatenation of the statements, one per line
RECURSIVE Concat(_)
Concat(lines) ==
    IF lines = <<>> THEN <<>> ELSE Head(lines) \o <<"\n">> \o Concat(Tail(lines))

\* the texts sys.stdin.read() may return
Inputs == {Concat(ls) : ls \in UNION {[1..n -> Stmts] : n \in 0..MaxDecls}}

ShapeInputs == {Concat(ls) : ls \in UNION {[1..n -> ShapeStmts] : n \in 0..MaxDecls}}

\* ------------------------------------------------------------------- state
VARIABLES
    input,      \* the text read from standard input
    pc,         \* where the run stands
    pos,        \* where finditer continues scanning in input
    res,        \* the text gen_wrappers_file accumulates, chunk by chunk
    ret,        \* what gen_wrappers_file returned
    formatter,  \* what became of the clang-format subprocess
    stdout,     \* what was printed
    stderr,     \* the uncaught exception reported, if any
    exited,     \* the process has ended
    status,     \* its exit status
    wrapper,    \* the emitted wrapper whose code is running
    unit,       \* that code as the compiler read it
    argv,       \* the arguments the bridge function was called with
    in_coroutine, \* what qemu_in_coroutine() answers in the caller
    bpc,        \* where the bridge function stands
    ctx,        \* the context structure s in the bridge's frame
    task,       \* where the coroutine running the entry point stands
    log,        \* the calls made so far, in order
    result      \* what the bridge function returned

\* python/scripts/mkvenv.py: one call of ensure()
VARIABLES
    mpc,        \* where ensure() stands
    dep_specs,  \* the packages to ensure
    online,     \* whether PyPI may be used
    wheels_dir, \* the directory of vendored packages, "" for None
    site,       \* the packages installed in the venv
    wheels,     \* the packages found in wheels_dir
    pypi,       \* the packages PyPI can deliver now
    pip_log,    \* the pip commands run so far, in order, with their outcome
    raised,     \* the exception that left ensure(), "" for none
    scripts     \* the packages generate_console_scripts was called for

\* tests/docker/docker.py: one process using a Docker object
VARIABLES
    dpc,        \* where the process stands
    instances,  \* Docker._instances
    containers, \* the containers the docker daemon knows
    keep,       \* the keep argument of the run in progress
    label,      \* the label of the run in progress, "" for none
    runs,       \* the number of calls of Docker.run so far
    ps,         \* the container ids _do_kill_instances still has to visit
    terminated  \* the docker commands the cleanup issued, in order

\* tests/qemu-iotests/testenv.py: one TestEnv object
VARIABLES
    tpc,          \* where the life of the object stands
    environ,      \* os.environ: <<>> for a variable that is unset, <<value>> otherwise
    fs,           \* the directories that exist
    pythonpath,   \* self.pythonpath
    test_dir,     \* self.test_dir
    sock_dir,     \* self.sock_dir
    tmp_sock_dir, \* self.tmp_sock_dir
    removed       \* the directories shutil.rmtree was called on, in order

\* the state of a call of an emitted bridge function
rt == <<wrapper, unit, argv, in_coroutine, bpc, ctx, task, log, result>>

mkvenv == <<mpc, dep_specs, online, wheels_dir, site, wheels, pypi, pip_log,
            raised, scripts>>

docker == <<dpc, instances, containers, keep, label, runs, ps, terminated>>

testenv == <<tpc, environ, fs, pythonpath, test_dir, sock_dir, tmp_sock_dir, removed>>

\* the state of the other programs of the repository
ext == <<mkvenv, docker, testenv>>

vars == <<input, pc, pos, res, ret, formatter, stdout, stderr, exited, status, rt, ext>>

NoContext == [alloc |-> FALSE, bs |-> <<>>, in_progress |-> FALSE,
              ret |-> 0, co |-> "", fields |-> <<>>]

\* no emitted code runs while the generator does
RtIdle ==
    /\ wrapper = [ok |-> FALSE]
    /\ unit = [params |-> <<>>]
    /\ argv = <<>>
    /\ in_coroutine = FALSE
    /\ bpc = "idle"
    /\ ctx = NoContext
    /\ task = "none"
    /\ log = <<>>
    /\ result = <<>>

\* ensure() is not running
MkvenvIdle ==
    /\ mpc = "off"
    /\ dep_specs = <<>>
    /\ online = FALSE
    /\ wheels_dir = ""
    /\ site = {}
    /\ wheels = {}
    /\ pypi = {}
    /\ pip_log = <<>>
    /\ raised = ""
    /\ scripts = <<>>

\* no Docker object exists
DockerIdle ==
    /\ dpc = "off"
    /\ instances = <<>>
    /\ containers = <<>>
    /\ keep = FALSE
    /\ label = ""
    /\ runs = 0
    /\ ps = <<>>
    /\ terminated = <<>>

\* no TestEnv object exists
TestEnvIdle ==
    /\ tpc = "off"
    /\ environ = [PYTHONPATH |-> <<>>, TEST_DIR |-> <<>>, SOCK_DIR |-> <<>>]
    /\ fs = {}
    /\ pythonpath = ""
    /\ test_dir = ""
    /\ sock_dir = ""
    /\ tmp_sock_dir = FALSE
    /\ removed = <<>>

NoException == [exc |-> "", msg |-> <<>>]

\* res += '\n\n\n'
Sep == [kind |-> "sep", body |-> <<"\n", "\n", "\n">>]

Init ==
    /\ input \in Inputs
    /\ pc = "gen_header"
    /\ pos = 1
    /\ res = <<>>
    /\ ret = <<>>
    /\ formatter = "not run"
    /\ stdout = <<>>
    /\ stderr = NoException
    /\ exited = FALSE
    /\ status = 0
    /\ RtIdle
    /\ MkvenvIdle
    /\ DockerIdle
    /\ TestEnvIdle

\* a run over an input made of the statements that probe the accepted shape
ShapeInit ==
    /\ input \in ShapeInputs
    /\ pc = "gen_header"
    /\ pos = 1
    /\ res = <<>>
    /\ ret = <<>>
    /\ formatter = "not run"
    /\ stdout = <<>>
    /\ stderr = NoException
    /\ exited = FALSE
    /\ status = 0
    /\ RtIdle
    /\ MkvenvIdle
    /\ DockerIdle
    /\ TestEnvIdle

\* func_decl_iter resumed with finditer at pos: the next FuncDecl (or the
\* exception its construction raises), or the end of the iteration
func_decl_iter(text, from) ==
    LET starts == MatchStarts(text, from)
    IN  IF starts = {} THEN [stop |-> TRUE]
        ELSE LET m == func_decl_re(text, SetMin(starts))
             IN  [stop |-> FALSE,
                  func |-> FuncDecl(<<"i", "n", "t">>, m.wrapper_name, m.args),
                  end  |-> m.end]

\* an exception that is caught and dropped: the run ends as if it succeeded
UncaughtIgnored(e) ==
    /\ stderr' = [exc |-> e.exc, msg |-> e.msg]
    /\ exited' = TRUE
    /\ status' = 0
    /\ pc' = "exit"
    /\ UNCHANGED <<rt, ext>>
    /\ UNCHANGED <<input, pos, res, ret, formatter, stdout>>

\* an exception nobody catches: the interpreter reports it on stderr and
\* exits with status 1; nothing reaches stdout
Uncaught(e) ==
    /\ stderr' = [exc |-> e.exc, msg |-> e.msg]
    /\ exited' = TRUE
    /\ status' = 1
    /\ pc' = "exit"
    /\ UNCHANGED <<rt, ext>>
    /\ UNCHANGED <<input, pos, res, ret, formatter, stdout>>

\* a header that carries the time of the run: one of two texts
GenHeaderStamped ==
    /\ pc = "gen_header"
    /\ \E stamp \in {<<>>, <<" * generated today">>} :
         res' = <<[kind |-> "header", body |-> gen_header \o stamp]>>
    /\ pc' = "iter"
    /\ UNCHANGED <<rt, ext>>
    /\ UNCHANGED <<input, pos, ret, formatter, stdout, stderr, exited, status>>

\* res = gen_header()
GenHeader ==
    /\ pc = "gen_header"
    /\ res' = <<[kind |-> "header", body |-> gen_header]>>
    /\ pc' = "iter"
    /\ UNCHANGED <<rt, ext>>
    /\ UNCHANGED <<input, pos, ret, formatter, stdout, stderr, exited, status>>

\* the loop printing each block as soon as it is synthesized
IterWrapperPrinting ==
    /\ pc = "iter"
    /\ LET it == func_decl_iter(input, pos)
       IN  /\ ~it.stop
           /\ it.func.ok
           /\ LET w == gen_wrapper(it.func)
              IN  /\ w.ok
                  /\ res' = res \o <<Sep, [kind |-> "wrapper", body |-> w]>>
                  /\ stdout' = stdout \o <<Sep, [kind |-> "wrapper", body |-> w]>>
           /\ pos' = it.end + 1
    /\ UNCHANGED <<rt, ext>>
    /\ UNCHANGED <<input, pc, ret, formatter, stderr, exited, status>>

\* the loop skipping a wrapper it has emitted before
IterWrapperDedup ==
    /\ pc = "iter"
    /\ LET it == func_decl_iter(input, pos)
       IN  /\ ~it.stop
           /\ it.func.ok
           /\ LET w == gen_wrapper(it.func)
                  block == [kind |-> "wrapper", body |-> w]
              IN  /\ w.ok
                  /\ res' = IF \E i \in 1..Len(res) : res[i] = block
                            THEN res ELSE res \o <<Sep, block>>
           /\ pos' = it.end + 1
    /\ UNCHANGED <<rt, ext>>
    /\ UNCHANGED <<input, pc, ret, formatter, stdout, stderr, exited, status>>

\* one turn of the loop of gen_wrappers_file that ends normally
IterWrapper ==
    /\ pc = "iter"
    /\ LET it == func_decl_iter(input, pos)
       IN  /\ ~it.stop
           /\ it.func.ok
           /\ LET w == gen_wrapper(it.func)
              IN  /\ w.ok
                  /\ res' = res \o <<Sep, [kind |-> "wrapper", body |-> w]>>
           /\ pos' = it.end + 1
    /\ UNCHANGED <<rt, ext>>
    /\ UNCHANGED <<input, pc, ret, formatter, stdout, stderr, exited, status>>

\* one turn of the loop in which FuncDecl or gen_wrapper raises
IterRaise ==
    /\ pc = "iter"
    /\ LET it == func_decl_iter(input, pos)
       IN  /\ ~it.stop
           /\ IF ~it.func.ok THEN Uncaught(it.func)
              ELSE LET w == gen_wrapper(it.func)
                   IN  ~w.ok /\ Uncaught(w)

\* the iterator is exhausted
IterStop ==
    /\ pc = "iter"
    /\ func_decl_iter(input, pos).stop
    /\ pc' = "prettify"
    /\ UNCHANGED <<rt, ext>>
    /\ UNCHANGED <<input, pos, res, ret, formatter, stdout, stderr, exited, status>>

\* prettify returning nothing when clang-format is not installed
PrettifyNotFoundEmpty ==
    /\ pc = "prettify"
    /\ formatter' = "not found"
    /\ ret' = <<>>
    /\ pc' = "print"
    /\ UNCHANGED <<rt, ext>>
    /\ UNCHANGED <<input, pos, res, stdout, stderr, exited, status>>

\* prettify without the except clause: FileNotFoundError ends the run
PrettifyNotFoundRaises ==
    /\ pc = "prettify"
    /\ formatter' = "not found"
    /\ stderr' = [exc |-> "FileNotFoundError", msg |-> <<>>]
    /\ exited' = TRUE
    /\ status' = 1
    /\ pc' = "exit"
    /\ UNCHANGED <<rt, ext>>
    /\ UNCHANGED <<input, pos, res, ret, stdout>>

\* prettify: clang-format is not installed, FileNotFoundError is caught
PrettifyNotFound ==
    /\ pc = "prettify"
    /\ formatter' = "not found"
    /\ ret' = res
    /\ pc' = "print"
    /\ UNCHANGED <<rt, ext>>
    /\ UNCHANGED <<input, pos, res, stdout, stderr, exited, status>>

\* prettify: clang-format ran and its output replaces the text
PrettifyFormatted ==
    /\ pc = "prettify"
    /\ formatter' = "ran"
    /\ ret' = <<[kind |-> "clang-format", body |-> res]>>
    /\ pc' = "print"
    /\ UNCHANGED <<rt, ext>>
    /\ UNCHANGED <<input, pos, res, stdout, stderr, exited, status>>

\* prettify catching every failure of clang-format and returning its input
PrettifyFailedFallsBack ==
    /\ pc = "prettify"
    /\ formatter' = "failed"
    /\ ret' = res
    /\ pc' = "print"
    /\ UNCHANGED <<rt, ext>>
    /\ UNCHANGED <<input, pos, res, stdout, stderr, exited, status>>

\* prettify: clang-format exits with an error, check=True raises
PrettifyFailed ==
    /\ pc = "prettify"
    /\ formatter' = "failed"
    /\ stderr' = [exc |-> "CalledProcessError", msg |-> <<>>]
    /\ exited' = TRUE
    /\ status' = 1
    /\ pc' = "exit"
    /\ UNCHANGED <<rt, ext>>
    /\ UNCHANGED <<input, pos, res, ret, stdout>>

\* print(gen_wrappers_file(sys.stdin.read()))
PrintResult ==
    /\ pc = "print"
    /\ stdout' = ret
    /\ exited' = TRUE
    /\ pc' = "exit"
    /\ UNCHANGED <<rt, ext>>
    /\ UNCHANGED <<input, pos, res, ret, formatter, stderr, status>>

Next ==
    \/ GenHeader
    \/ IterWrapper
    \/ IterRaise
    \/ IterStop
    \/ PrettifyNotFound
    \/ PrettifyFormatted
    \/ PrettifyFailed
    \/ PrintResult

Spec == Init /\ [][Next]_vars

ShapeSpec == ShapeInit /\ [][Next]_vars

\* ------------------------------------------------- the emitted code, running
\* largest value of a bridge argument
MaxArg == 1

ArgVals == 0..MaxArg

\* what the coroutine-variant function may return: success or -EIO
RetVals == {0 - 5, 0}

\* reserved words of C that cannot name a parameter
CKeywords == {<<"i", "n", "t">>, <<"c", "h", "a", "r">>, <<"v", "o", "i", "d">>, <<"u", "n", "s", "i", "g", "n", "e", "d">>, <<"c", "o", "n", "s", "t">>}

\* first position where sub stands in s, 0 when nowhere
Find(s, sub) ==
    LET at == {i \in 1..Len(s) : LitAt(s, i, sub)}
    IN  IF at = {} THEN 0 ELSE SetMin(at)

\* 'f(a, b)': the function called and its argument expressions
Callee(call) == SubSeq(call, 1, Find(call, <<"(">>) - 1)

CallArgs(call) ==
    LET inner == SubSeq(call, Find(call, <<"(">>) + 1, Len(call) - 1)
        parts == Split(inner, ",")
    IN  [i \in 1..Len(parts) |-> Strip(parts[i])]

\* the parameter names of 'int f(T a, U b)', as the compiler binds them
ParamNames(signature) ==
    LET parts == CallArgs(signature)
    IN  [i \in 1..Len(parts) |-> ParamDecl(parts[i]).name]

\* the designated initializers '.f = e,' of the context structure
InitFields(init_body) ==
    LET lines == Split(init_body, "\n")
        item(l) == LET t == Strip(l)
                       eq == Find(t, <<" ", "=", " ">>)
                   IN  <<SubSeq(t, 2, eq - 1), SubSeq(t, eq + 3, Len(t) - 1)>>
    IN  [i \in 1..Len(lines) |-> item(lines[i])]

\* the emitted unit as the compiler reads it: the parameters of the bridge,
\* the calls it and the entry point make, the initializer of the context
Compile(w) ==
    [params       |-> ParamNames(w.signature),
     fast_callee  |-> Callee(w.fast_call),
     fast_args    |-> CallArgs(w.fast_call),
     owner        |-> w.bs,
     init         |-> InitFields(w.init_body),
     entry        |-> w.create,
     entry_callee |-> Callee(w.entry_call),
     entry_args   |-> CallArgs(w.entry_call)]

\* the value of an identifier in the bridge function: a parameter is bound
\* to its argument, anything else is undeclared (<<>>)
Lookup(u, args, ident) ==
    LET hits == {i \in 1..Len(u.params) : u.params[i] = ident}
    IN  IF hits = {} THEN <<>> ELSE <<args[SetMin(hits)]>>

\* the value of an expression in the bridge function: 'x' or 'x->member'
EvalBridge(u, args, expr) ==
    LET arrow == Find(expr, <<"-", ">">>)
    IN  IF arrow = 0 THEN Lookup(u, args, expr)
        ELSE LET base == Lookup(u, args, SubSeq(expr, 1, arrow - 1))
             IN  IF base = <<>> THEN <<>>
                 ELSE base \o <<SubSeq(expr, arrow + 2, Len(expr))>>

\* the value of 's->f' in the entry point: a read of the context structure
EvalEntry(c, expr) ==
    LET f == SubSeq(expr, 4, Len(expr))
        hits == {i \in 1..Len(c.fields) : c.fields[i][1] = f}
    IN  IF ~StartsWith(expr, <<"s", "-", ">">>) \/ hits = {} THEN <<>>
        ELSE c.fields[SetMin(hits)][2]

\* a C compiler accepts the emitted unit: no parameter is named by a
\* reserved word and the owning-handle expression uses a parameter
Compiles(w) ==
    LET u == Compile(w)
    IN  /\ \A i \in 1..Len(u.params) : u.params[i] \notin CKeywords
        /\ EvalBridge(u, [i \in 1..Len(u.params) |-> 0], u.owner) # <<>>

Event(ev, fn, args, by) == [ev |-> ev, fn |-> fn, args |-> args, by |-> by]

\* a call of an emitted bridge function: the generator has printed one
\* wrapper, the unit was compiled, and some caller calls the bridge
BridgeInit ==
    /\ \E st \in Stmts :
         LET text == Concat(<<st>>)
             it == func_decl_iter(text, 1)
         IN  /\ ~it.stop
             /\ it.func.ok
             /\ LET w == gen_wrapper(it.func)
                IN  /\ w.ok
                    /\ Compiles(w)
                    /\ wrapper = w
                    /\ unit = Compile(w)
                    /\ res = <<[kind |-> "header", body |-> gen_header], Sep,
                               [kind |-> "wrapper", body |-> w]>>
             /\ input = text
             /\ pos = it.end + 1
    /\ pc = "exit"
    /\ ret = res
    /\ formatter = "not found"
    /\ stdout = res
    /\ stderr = NoException
    /\ exited = TRUE
    /\ status = 0
    /\ argv \in [1..Len(unit.params) -> ArgVals]
    /\ in_coroutine \in BOOLEAN
    /\ bpc = "entry"
    /\ ctx = NoContext
    /\ task = "none"
    /\ log = <<>>
    /\ result = <<>>
    /\ MkvenvIdle
    /\ DockerIdle
    /\ TestEnvIdle

gen == <<input, pc, pos, res, ret, formatter, stdout, stderr, exited, status>>

\* the generator is not running
GenIdle ==
    /\ input = <<>>
    /\ pc = "off"
    /\ pos = 1
    /\ res = <<>>
    /\ ret = <<>>
    /\ formatter = "not run"
    /\ stdout = <<>>
    /\ stderr = NoException
    /\ exited = FALSE
    /\ status = 0

\* the test of the bridge inverted: if (!qemu_in_coroutine())
BridgeTestInverted ==
    /\ bpc = "entry"
    /\ bpc' = IF in_coroutine THEN "init" ELSE "fast"
    /\ UNCHANGED <<gen, ext, wrapper, unit, argv, in_coroutine, ctx, task, log, result>>

\* if (qemu_in_coroutine())
BridgeTest ==
    /\ bpc = "entry"
    /\ bpc' = IF in_coroutine THEN "fast" ELSE "init"
    /\ UNCHANGED <<gen, ext, wrapper, unit, argv, in_coroutine, ctx, task, log, result>>

\* the values of the arguments of the call 'bdrv_co_x(args)' in the bridge
FastArgs(u, a) ==
    [i \in 1..Len(u.fast_args) |-> EvalBridge(u, a, u.fast_args[i])]

\* the call in 'return bdrv_co_x(args);'
FastCall ==
    /\ bpc = "fast"
    /\ log' = Append(log, Event("call", unit.fast_callee,
                                FastArgs(unit, argv), "bridge"))
    /\ bpc' = "fast_called"
    /\ UNCHANGED <<gen, ext, wrapper, unit, argv, in_coroutine, ctx, task, result>>

\* the coroutine-variant function returns and the bridge returns its value
FastReturn ==
    /\ bpc = "fast_called"
    /\ \E r \in RetVals :
         /\ log' = Append(log, Event("return", unit.fast_callee, <<r>>, "bridge"))
         /\ result' = <<r>>
    /\ bpc' = "returned"
    /\ UNCHANGED <<gen, ext, wrapper, unit, argv, in_coroutine, ctx, task>>

\* the context as the initializer of 's' in the bridge sets it
Initializer(u, a) ==
    LET init == u.init
    IN  [alloc |-> TRUE,
             bs |-> EvalBridge(u, a, u.owner),
             in_progress |-> TRUE,
             ret |-> 0,
             co |-> "",
             fields |-> [i \in 1..Len(init) |->
                           <<init[i][1], EvalBridge(u, a, init[i][2])>>]]

\* the initializer without '.poll_state.in_progress = true': the flag is
\* zero-initialized
SlowInitFlagUnset ==
    /\ bpc = "init"
    /\ ctx' = [Initializer(unit, argv) EXCEPT !.in_progress = FALSE]
    /\ bpc' = "create"
    /\ UNCHANGED <<gen, ext, wrapper, unit, argv, in_coroutine, task, log, result>>

\* StructName s = { .poll_state.bs = ..., .poll_state.in_progress = true,
\* .f = f, ... };
SlowInit ==
    /\ bpc = "init"
    /\ ctx' = Initializer(unit, argv)
    /\ bpc' = "create"
    /\ UNCHANGED <<gen, ext, wrapper, unit, argv, in_coroutine, task, log, result>>

\* s.poll_state.co = qemu_coroutine_create(entry, &s);
SlowCreate ==
    /\ bpc = "create"
    /\ ctx' = [ctx EXCEPT !.co = "co"]
    /\ task' = "created"
    /\ log' = Append(log, Event("create", unit.entry, <<<<"&", "s">>>>, "bridge"))
    /\ bpc' = "poll"
    /\ UNCHANGED <<gen, ext, wrapper, unit, argv, in_coroutine, result>>

\* the bridge calls bdrv_poll_co(&s.poll_state)
PollCall ==
    /\ bpc = "poll"
    /\ log' = Append(log, Event("poll", <<>>, <<<<"&", "s", ".", "p", "o", "l", "l", "_", "s", "t", "a", "t", "e">>>>, "bridge"))
    /\ bpc' = "in_poll"
    /\ UNCHANGED <<gen, ext, wrapper, unit, argv, in_coroutine, ctx, task, result>>

\* bdrv_poll_co enters the coroutine s->co, then polls
PollEnter ==
    /\ bpc = "in_poll"
    /\ task = "created"
    /\ task' = "entry"
    /\ bpc' = "polling"
    /\ UNCHANGED <<gen, ext, wrapper, unit, argv, in_coroutine, ctx, log, result>>

\* bdrv_poll_co returns s->ret once in_progress is clear, and the bridge
\* returns that value: its frame, and s with it, is gone
PollReturn ==
    /\ bpc = "polling"
    /\ ~ctx.in_progress
    /\ result' = <<ctx.ret>>
    /\ ctx' = [ctx EXCEPT !.alloc = FALSE]
    /\ bpc' = "returned"
    /\ UNCHANGED <<gen, ext, wrapper, unit, argv, in_coroutine, task, log>>

\* the values of the arguments of the call 'bdrv_co_x(s->f, ...)' in the
\* entry point
EntryArgs(u, c) ==
    [i \in 1..Len(u.entry_args) |-> EvalEntry(c, u.entry_args[i])]

\* the entry point clearing in_progress before it calls the coroutine variant
EntryCallClearsFlag ==
    /\ task = "entry"
    /\ log' = Append(log, Event("call", unit.entry_callee,
                                EntryArgs(unit, ctx), "task"))
    /\ ctx' = [ctx EXCEPT !.in_progress = FALSE]
    /\ task' = "called"
    /\ UNCHANGED <<gen, ext, wrapper, unit, argv, in_coroutine, bpc, result>>

\* the call in 's->poll_state.ret = bdrv_co_x(s->f, ...);'
EntryCall ==
    /\ task = "entry"
    /\ log' = Append(log, Event("call", unit.entry_callee,
                                EntryArgs(unit, ctx), "task"))
    /\ task' = "called"
    /\ UNCHANGED <<gen, ext, wrapper, unit, argv, in_coroutine, bpc, ctx, result>>

\* the coroutine-variant function yields to the loop that polls
CalleeYield ==
    /\ task = "called"
    /\ task' = "yielded"
    /\ UNCHANGED <<gen, ext, wrapper, unit, argv, in_coroutine, bpc, ctx, log, result>>

\* the loop enters the coroutine again
CalleeResume ==
    /\ task = "yielded"
    /\ task' = "called"
    /\ UNCHANGED <<gen, ext, wrapper, unit, argv, in_coroutine, bpc, ctx, log, result>>

\* the entry point signalling completion together with the store of the
\* result, the statement that clears the flag still to come
EntryStoreClearsFlag ==
    /\ task = "called"
    /\ \E r \in RetVals :
         /\ log' = Append(log, Event("return", unit.entry_callee, <<r>>, "task"))
         /\ ctx' = [ctx EXCEPT !.ret = r, !.in_progress = FALSE]
    /\ task' = "clear"
    /\ UNCHANGED <<gen, ext, wrapper, unit, argv, in_coroutine, bpc, result>>

\* the entry point calling the coroutine variant without storing its value
EntryStoreDropsResult ==
    /\ task = "called"
    /\ \E r \in RetVals :
         log' = Append(log, Event("return", unit.entry_callee, <<r>>, "task"))
    /\ task' = "clear"
    /\ UNCHANGED <<gen, ext, wrapper, unit, argv, in_coroutine, bpc, ctx, result>>

\* the coroutine-variant function returns; its value goes to poll_state.ret
EntryStore ==
    /\ task = "called"
    /\ \E r \in RetVals :
         /\ log' = Append(log, Event("return", unit.entry_callee, <<r>>, "task"))
         /\ ctx' = [ctx EXCEPT !.ret = r]
    /\ task' = "clear"
    /\ UNCHANGED <<gen, ext, wrapper, unit, argv, in_coroutine, bpc, result>>

\* the entry point without 's->poll_state.in_progress = false;'
EntryClearSkipped ==
    /\ task = "clear"
    /\ task' = "on_exit"
    /\ UNCHANGED <<gen, ext, wrapper, unit, argv, in_coroutine, bpc, ctx, log, result>>

\* s->poll_state.in_progress = false;
EntryClear ==
    /\ task = "clear"
    /\ ctx' = [ctx EXCEPT !.in_progress = FALSE]
    /\ task' = "on_exit"
    /\ UNCHANGED <<gen, ext, wrapper, unit, argv, in_coroutine, bpc, log, result>>

\* bdrv_poll_co__on_exit(); and the coroutine terminates
EntryOnExit ==
    /\ task = "on_exit"
    /\ log' = Append(log, Event("on_exit", <<>>, <<>>, "task"))
    /\ task' = "done"
    /\ UNCHANGED <<gen, ext, wrapper, unit, argv, in_coroutine, bpc, ctx, result>>

BridgeNext ==
    \/ BridgeTest
    \/ FastCall
    \/ FastReturn
    \/ SlowInit
    \/ SlowCreate
    \/ PollCall
    \/ PollEnter
    \/ PollReturn
    \/ EntryCall
    \/ CalleeYield
    \/ CalleeResume
    \/ EntryStore
    \/ EntryClear
    \/ EntryOnExit

BridgeSpec == BridgeInit /\ [][BridgeNext]_vars

\* the call of the bridge under the assumptions of its contract: the caller
\* and the loop that drives the coroutine keep running, and the
\* coroutine-variant function, however often it yields, returns
BridgeFairSpec ==
    /\ BridgeInit
    /\ [][BridgeNext]_vars
    /\ WF_vars(BridgeTest)
    /\ WF_vars(FastCall)
    /\ WF_vars(FastReturn)
    /\ WF_vars(SlowInit)
    /\ WF_vars(SlowCreate)
    /\ WF_vars(PollCall)
    /\ WF_vars(PollEnter)
    /\ WF_vars(PollReturn)
    /\ WF_vars(EntryCall)
    /\ WF_vars(CalleeResume)
    /\ SF_vars(EntryStore)
    /\ WF_vars(EntryClear)
    /\ WF_vars(EntryOnExit)

\* ---------------------------------------------------------------- the claims
\* every match func_decl_re.finditer finds from position `from` on, in order
RECURSIVE finditer(_, _)
finditer(text, from) ==
    LET starts == MatchStarts(text, from)
    IN  IF starts = {} THEN <<>>
        ELSE LET m == func_decl_re(text, SetMin(starts))
             IN  <<m>> \o finditer(text, m.end + 1)

\* the declarations discovered in the input, and the wrappers emitted so far
Discovered == finditer(input, 1)

BlocksOf(chunks) ==
    LET ws == SelectSeq(chunks, LAMBDA c : c.kind = "wrapper")
    IN  [k \in 1..Len(ws) |-> ws[k].body]

Emitted == BlocksOf(res)

\* the raw parameter fragments of a match, and the FuncDecl built from it
Fragments(m) == Split(m.args, ",")

FuncOf(m) == FuncDecl(<<"i", "n", "t">>, m.wrapper_name, m.args)

\* a discovered declaration the generator rejects
Fails(m) == LET f == FuncOf(m) IN ~f.ok \/ ~gen_wrapper(f).ok

\* the input grammar's parameter, read from the right: <type><name>, the
\* type ending in whitespace or '*', the name an identifier that is not a
\* reserved word
GrammarSplit(frag) ==
    LET s == Strip(frag)
        ends == {k \in 1..Len(s) : s[k] \in TypeEnd}
    IN  IF ends = {} THEN 0 ELSE SetMax(ends)

GrammarType(frag) == SubSeq(Strip(frag), 1, GrammarSplit(frag))

GrammarName(frag) == SubSeq(Strip(frag), GrammarSplit(frag) + 1, Len(Strip(frag)))

GrammarParam(frag) ==
    LET n == GrammarName(frag)
    IN  /\ GrammarSplit(frag) > 0
        /\ n # <<>>
        /\ n[1] \in Lower
        /\ \A i \in 1..Len(n) : n[i] \in NameChar
        /\ n \notin CKeywords

\* the lines of the input that carry the marker
MarkedLines ==
    LET lines == Split(input, "\n")
    IN  SelectSeq(lines, LAMBDA l : Find(l, Marker) > 0)

\* C1: when a discovered declaration fails parameter parsing or a
\* gen_wrapper precondition, nothing is ever written to standard output and
\* the run does not end with status 0
C1_AllOrNothing ==
    LET ds == Discovered
    IN  (stdout # <<>> \/ (exited /\ status = 0))
            => \A k \in 1..Len(ds) : ~Fails(ds[k])

\* a run aborted by its second declaration after the first was synthesized
C1_Witness ==
    /\ exited
    /\ status = 1
    /\ stderr.exc \in {"ValueError", "AssertionError"}
    /\ Len(Emitted) = 1
    /\ stdout = <<>>

\* C2: for a first parameter of type 'BlockDriverState *' the expression
\* assigned to .poll_state.bs is that parameter's identifier
C2_HandleIsFirstParam ==
    LET ds == Discovered
        ws == Emitted
    IN  \A k \in 1..Len(ws) :
            LET f == FuncOf(ds[k])
            IN  f.args[1].type = BlockDriverStatePtr => ws[k].bs = f.args[1].name

RECURSIVE BlocksFor(_)
BlocksFor(ms) ==
    IF ms = <<>> THEN <<>>
    ELSE <<Sep, [kind |-> "wrapper", body |-> gen_wrapper(FuncOf(Head(ms)))]>>
         \o BlocksFor(Tail(ms))

ExpectedOutput == <<[kind |-> "header", body |-> gen_header]>> \o BlocksFor(Discovered)

\* C5: once the loop has ended normally the accumulated text is the header
\* once, then one block per scanner match in input order, each after the
\* blank lines, duplicates included; without the formatter that is what is
\* printed
C5_HeaderThenBlocksInOrder ==
    /\ (pc \in {"prettify", "print"} \/ (exited /\ status = 0)) =>
          res = ExpectedOutput
    /\ (exited /\ status = 0 /\ formatter = "not found") =>
          stdout = ExpectedOutput

\* the same declaration twice in the input: two equal blocks are printed
C5_Witness ==
    /\ exited
    /\ status = 0
    /\ formatter = "not found"
    /\ Len(stdout) = 5
    /\ stdout[3] = stdout[5]

\* C6: a parameter fragment without a type+identifier split is never
\* accepted: no wrapper is synthesized from a declaration that has one
C6_AnonymousRejected ==
    LET ds == Discovered
    IN  \A k \in 1..Len(Emitted) :
            \A i \in 1..Len(Fragments(ds[k])) : GrammarParam(Fragments(ds[k])[i])

\* what a marked line declares, read leniently: the text before the marker,
\* the text between the marker and '(', the first parameter
LineReturnType(l) == Strip(SubSeq(l, 1, Find(l, Marker) - 1))

LineName(l) == Strip(SubSeq(l, Find(l, Marker) + Len(Marker), Find(l, <<"(">>) - 1))

LineFirstParam(l) ==
    LET inner == SubSeq(l, Find(l, <<"(">>) + 1, Len(l))
    IN  Split(Split(inner, ",")[1], ")")[1]

\* the marked line violates a naming or type precondition of gen_wrapper
ViolatesPrecondition(l) ==
    \/ LineReturnType(l) # <<"i", "n", "t">>
    \/ ~StartsWith(LineName(l), BdrvPrefix)
    \/ StartsWith(LineName(l), BdrvCoPrefix)
    \/ /\ GrammarParam(LineFirstParam(l))
       /\ GrammarType(LineFirstParam(l)) \notin {BlockDriverStatePtr, BdrvChildPtr}

\* C7: a marked declaration that violates a naming or type precondition
\* aborts the run: no run over an input holding one ends with status 0
C7_ViolationIsFatal ==
    (exited /\ status = 0) =>
        \A i \in 1..Len(MarkedLines) : ~ViolatesPrecondition(MarkedLines[i])

\* C8: a run that succeeds has emitted a wrapper for every statement of the
\* input that carries the marker
C8_NoMarkedDropped ==
    (exited /\ status = 0) => Len(Emitted) = Len(MarkedLines)

\* the declaration func_decl_iter was at when the run was aborted
Offending == func_decl_re(input, SetMin(MatchStarts(input, pos)))

\* the report quotes the declaration: its name or one of its parameters
Identifies(msg, m) ==
    \/ Find(msg, m.wrapper_name) > 0
    \/ \E i \in 1..Len(Fragments(m)) :
         /\ Strip(Fragments(m)[i]) # <<>>
         /\ Find(msg, Strip(Fragments(m)[i])) > 0

Fatal == {"ValueError", "AssertionError"}

\* C9 as stated: every fatal condition ends the process with a non-zero
\* status and a report that identifies the offending declaration
C9_ReportIdentifies ==
    (exited /\ stderr.exc \in Fatal) =>
        /\ status # 0
        /\ Identifies(stderr.msg, Offending)

\* the first parameter fragment of a match that param_re does not match
FirstBadFragment(m) ==
    LET frags == Fragments(m)
        bad == {i \in 1..Len(frags) : ~param_re(Strip(frags[i])).ok}
    IN  Strip(frags[SetMin(bad)])

\* C9 as amended: no rejected declaration is passed over, a run with one
\* ends with a non-zero status, a parameter parse failure is reported with
\* the offending fragment quoted, and a failed name or type precondition is
\* reported as a bare AssertionError that names no declaration
C9_FatalEscapes ==
    /\ LET ds == Discovered
       IN  \A k \in 1..Len(ds) :
               (ds[k].end < pos \/ (exited /\ status = 0)) => ~Fails(ds[k])
    /\ (exited /\ stderr.exc \in Fatal) =>
         /\ status # 0
         /\ Fails(Offending)
         /\ stderr.exc = "ValueError" =>
              stderr.msg = WrongParameter \o FirstBadFragment(Offending) \o <<"\"">>
         /\ stderr.exc = "AssertionError" => stderr.msg = <<>>

\* a run aborted by a failed precondition of gen_wrapper
C9_Witness ==
    /\ exited
    /\ status = 1
    /\ stderr.exc = "AssertionError"
    /\ ~Identifies(stderr.msg, Offending)

\* the calls of kind ev in the log
Events(ev) == SelectSeq(log, LAMBDA e : e.ev = ev)

\* C10: called inside a coroutine, the bridge calls the coroutine variant
\* exactly once, itself, with its own arguments in declared order, and
\* creates no context structure, no coroutine, and never polls
C10_FastPath ==
    (bpc # "idle" /\ in_coroutine) =>
        /\ ctx = NoContext
        /\ task = "none"
        /\ Events("create") = <<>>
        /\ Events("poll") = <<>>
        /\ Len(Events("call")) <= 1
        /\ bpc \in {"fast_called", "returned"} =>
             Events("call") =
               <<Event("call", CoName(FuncOf(Discovered[1])),
                       [i \in 1..Len(argv) |-> <<argv[i]>>], "bridge")>>

\* the bridge has returned on the fast path with distinct arguments
C10_Witness ==
    /\ bpc = "returned"
    /\ in_coroutine
    /\ Len(argv) >= 2
    /\ argv[1] # argv[2]
    /\ Len(Events("call")) = 1

\* the declaration whose bridge is running, and the value of the handle that
\* owns it: the first argument, or the bs member of the first argument
BridgeFunc == FuncOf(Discovered[1])

OwnerOf(f) ==
    IF f.args[1].type = BlockDriverStatePtr THEN <<argv[1]>>
    ELSE <<argv[1], <<"b", "s">>>>

\* C11: outside coroutine context the bridge initializes the context
\* (poll_state.bs the owning handle, in_progress true, every argument in its
\* field) before it creates the one coroutine, bound to the entry point and
\* &s and stored in poll_state.co, and calls bdrv_poll_co only after that;
\* the coroutine is entered inside bdrv_poll_co only, and in_progress is
\* true whenever the coroutine can first run
C11_SlowPathOrder ==
    (bpc # "idle" /\ ~in_coroutine) =>
        LET f == BridgeFunc
        IN  /\ Len(Events("create")) <= 1
            /\ Len(Events("poll")) <= 1
            /\ (task = "none") = (Events("create") = <<>>)
            /\ Events("create") # <<>> =>
                 /\ Events("create")[1] =
                      Event("create", CoName(f) \o <<"_", "e", "n", "t", "r", "y">>, <<<<"&", "s">>>>, "bridge")
                 /\ ctx.co = "co"
                 /\ ctx.bs = OwnerOf(f)
                 /\ Len(ctx.fields) = Len(argv)
                 /\ \A i \in 1..Len(argv) :
                      ctx.fields[i] = <<f.args[i].name, <<argv[i]>>>>
            /\ \A i, j \in 1..Len(log) :
                 (log[i].ev = "poll" /\ log[j].ev = "create") => j < i
            /\ task \in {"created", "entry"} => (ctx.alloc /\ ctx.in_progress)
            /\ task \notin {"none", "created"} =>
                 (Events("poll") # <<>> /\ bpc \in {"polling", "returned"})

\* the coroutine has been entered from bdrv_poll_co and has not run yet
C11_Witness ==
    /\ bpc = "polling"
    /\ task = "entry"
    /\ ctx.in_progress
    /\ ctx.co = "co"
    /\ Len(ctx.fields) >= 2

\* C12: the entry point stores the result in poll_state.ret before it clears
\* in_progress and calls bdrv_poll_co__on_exit() after that: once the task
\* has started, in_progress false means ret holds the result
C12_CompletionOrder ==
    task \notin {"none", "created"} =>
        /\ ~ctx.in_progress =>
             /\ Len(Events("return")) = 1
             /\ Events("return")[1].by = "task"
             /\ <<ctx.ret>> = Events("return")[1].args
        /\ ~ctx.in_progress = (task \in {"on_exit", "done"})
        /\ Events("on_exit") # <<>> => ~ctx.in_progress

\* the flag is clear, the result -EIO is stored, on_exit is still to come
C12_Witness ==
    /\ task = "on_exit"
    /\ ~ctx.in_progress
    /\ ctx.ret # 0
    /\ Events("on_exit") = <<>>

\* the statements of the entry point still to run read or write *s
PendingAccess == task \in {"entry", "called", "yielded", "clear"}

\* C13 as stated: when the bridge returns the spawned task has completed
C13_TaskCompleted ==
    (bpc = "returned" /\ ~in_coroutine) => task = "done"

\* C13 as amended: when the bridge returns, and its frame with the context
\* is gone, no statement of the task that reads or writes the context is
\* still to run; only bdrv_poll_co__on_exit() may be
C13_NoAccessAfterReturn ==
    /\ (bpc = "returned" /\ ~in_coroutine) => (~PendingAccess /\ ~ctx.alloc)
    /\ PendingAccess => ctx.alloc

\* the bridge has returned and the task has not yet called on_exit
C13_Witness ==
    /\ bpc = "returned"
    /\ ~in_coroutine
    /\ ~ctx.alloc
    /\ task = "on_exit"

\* C14: the bridge returns the value of the one call of the coroutine
\* variant made for it, by the bridge on the fast path and by the entry
\* point on the slow path, with the arguments of the bridge
C14_ReturnsCalleeResult ==
    /\ Len(Events("call")) <= 1
    /\ bpc = "returned" =>
         /\ Events("call") =
              <<Event("call", CoName(BridgeFunc),
                      [i \in 1..Len(argv) |-> <<argv[i]>>],
                      IF in_coroutine THEN "bridge" ELSE "task")>>
         /\ Len(Events("return")) = 1
         /\ result = Events("return")[1].args

\* the bridge has returned -EIO on the slow path
C14_Witness ==
    /\ bpc = "returned"
    /\ ~in_coroutine
    /\ result # <<0>>
    /\ Len(Events("poll")) = 1

\* C15: the bridge never returns while in_progress is true, and when the
\* coroutine variant returns and the loop is fair, it returns
C15_RunsToCompletion ==
    /\ []((bpc = "returned" /\ ~in_coroutine) => ~ctx.in_progress)
    /\ <>(bpc = "returned")

\* the slow path has run to its end: the task is done, the bridge returned
C15_Witness ==
    /\ bpc = "returned"
    /\ ~in_coroutine
    /\ task = "done"
    /\ Len(Events("on_exit")) = 1

\* C16: when clang-format is not found prettify returns its input unchanged
\* and the run succeeds: what is printed is the accumulated text, the exit
\* status is zero and nothing is reported
C16_NotFoundPassThrough ==
    formatter = "not found" =>
        /\ ret = res
        /\ status = 0
        /\ stderr = NoException
        /\ exited => stdout = res

\* a run without clang-format that printed the header and one block
C16_Witness ==
    /\ exited
    /\ formatter = "not found"
    /\ status = 0
    /\ Len(res) = 3
    /\ stdout = res

\* C17: when clang-format is found and exits with an error prettify does not
\* fall back to its input: the failure ends the run with a non-zero status
\* and nothing is printed
C17_FormatterFailureIsFatal ==
    formatter = "failed" =>
        /\ exited
        /\ status # 0
        /\ stdout = <<>>
        /\ ret = <<>>
        /\ stderr.exc = "CalledProcessError"

\* clang-format failed after a block was synthesized: nothing was printed
C17_Witness ==
    /\ formatter = "failed"
    /\ exited
    /\ Len(Emitted) >= 1
    /\ stdout = <<>>

C19_Deterministic ==
    exited =>
        stdout = IF status # 0 THEN <<>>
                 ELSE IF formatter = "ran"
                      THEN <<[kind |-> "clang-format", body |-> ExpectedOutput]>>
                      ELSE ExpectedOutput

\* a formatted run over two declarations
C19_Witness ==
    /\ exited
    /\ status = 0
    /\ formatter = "ran"
    /\ Len(Emitted) = 2

\* C20: for a first parameter of type 'BdrvChild *' the owning-handle
\* expression is 'child->bs', whatever the parameter is called
C20_ChildHandle ==
    LET ds == Discovered
        ws == Emitted
    IN  \A k \in 1..Len(ws) :
            FuncOf(ds[k]).args[1].type = BdrvChildPtr => ws[k].bs = <<"c", "h", "i", "l", "d", "-", ">", "b", "s">>

\* a wrapper emitted for a 'BdrvChild *' parameter that is not called child
C20_Witness ==
    LET ds == Discovered
        ws == Emitted
    IN  \E k \in 1..Len(ws) :
            LET a == FuncOf(ds[k]).args[1]
            IN  /\ a.type = BdrvChildPtr
                /\ a.name # <<"c", "h", "i", "l", "d">>
                /\ ws[k].bs = <<"c", "h", "i", "l", "d", "-", ">", "b", "s">>

\* C21: for every discovered name that passes the two prefix checks the
\* structure name is defined: snake_to_camel of the coroutine-variant name
\* does not fail, and no run ends in its IndexError
C21_StructNameDefined ==
    LET ds == Discovered
    IN  /\ stderr.exc # "IndexError"
        /\ \A k \in 1..Len(ds) :
             LET n == ds[k].wrapper_name
             IN  (StartsWith(n, <<"b", "d", "r", "v", "_">>) /\ ~StartsWith(n, <<"b", "d", "r", "v", "_", "c", "o", "_">>)) =>
                    snake_to_camel(<<"b", "d", "r", "v", "_", "c", "o", "_">> \o SubSeq(n, 6, Len(n))).ok

\* C22: for every emitted wrapper of a declaration named 'bdrv_' + X the
\* comment, the entry point and both calls name 'bdrv_co_' + X, the bridge
\* keeps the declared name, and wrappers of different declared names name
\* different variants
C22_PrefixSwap ==
    LET ds == Discovered
        ws == Emitted
    IN  /\ \A k \in 1..Len(ws) :
             LET n == FuncOf(ds[k]).name
                 variant == <<"b", "d", "r", "v", "_", "c", "o", "_">> \o SubSeq(n, 6, Len(n))
             IN  /\ n = <<"b", "d", "r", "v", "_">> \o SubSeq(n, 6, Len(n))
                 /\ ws[k].comment = <<" ", "*", " ", "W", "r", "a", "p", "p", "e", "r", "s", " ", "f", "o", "r", " ">> \o variant
                 /\ ws[k].entry_name = variant \o <<"_", "e", "n", "t", "r", "y">>
                 /\ ws[k].create = variant \o <<"_", "e", "n", "t", "r", "y">>
                 /\ Callee(ws[k].entry_call) = variant
                 /\ Callee(ws[k].fast_call) = variant
                 /\ StartsWith(ws[k].signature, <<"i", "n", "t", " ">> \o n \o <<"(">>)
        /\ \A j, k \in 1..Len(ws) :
             FuncOf(ds[j]).name # FuncOf(ds[k]).name =>
                Callee(ws[j].fast_call) # Callee(ws[k].fast_call)

\* two wrappers of two declared names were printed
C22_Witness ==
    /\ exited
    /\ status = 0
    /\ Len(Emitted) = 2
    /\ Emitted[1].entry_name # Emitted[2].entry_name

\* a statement of the shape of func_decl_re stands at position i: at the
\* start of a line, 'int', whitespace or none, the marker, whitespace or
\* none, a name, '(', text without ')', ');' and the end of the line
ShapeAt(text, i) ==
    /\ (i = 1 \/ text[i - 1] = "\n")
    /\ LitAt(text, i, <<"i", "n", "t">>)
    /\ \E p1 \in {p \in (i + 3)..Len(text) : LitAt(text, p, Marker)} :
         /\ \A j \in (i + 3)..(p1 - 1) : text[j] \in Space
         /\ \E e \in {p \in (p1 + Len(Marker))..(Len(text) - 1) : text[p + 1] = "("} :
              \E p2 \in (p1 + Len(Marker))..e :
                /\ \A j \in (p1 + Len(Marker))..(p2 - 1) : text[j] \in Space
                /\ text[p2] \in Lower
                /\ \A j \in p2..e : text[j] \in NameChar
                /\ \E a \in {p \in (e + 1)..Len(text) : LitAt(text, p + 1, <<")", ";">>)} :
                     /\ \A j \in (e + 2)..a : text[j] # ")"
                     /\ (a + 2 = Len(text) \/ text[a + 3] = "\n")

\* the text of the match that starts at position i
Matched(text, i) == SubSeq(text, i, func_decl_re(text, i).end)

\* C23 as stated: every match occupies a single line and has whitespace
\* after 'int' and before the name
C23_SingleLineShape ==
    \A i \in MatchStarts(input, 1) :
        LET m == func_decl_re(input, i)
            t == Matched(input, i)
            p2 == m.end - 2 - Len(m.args) - Len(m.wrapper_name)
        IN  /\ \A j \in 1..Len(t) : t[j] # "\n"
            /\ input[i + 3] \in Space
            /\ input[p2 - 1] \in Space

\* C23 as amended: the scanner matches exactly the statements that start a
\* line, end a line and read 'int', the marker, a name, '(', an argument
\* list without ')' and ');', with whitespace or none, newlines included,
\* between the tokens, and with an argument list that may span lines
C23_MatchedShape ==
    MatchStarts(input, 1) = {i \in 1..Len(input) : ShapeAt(input, i)}

\* a run that printed the wrapper of a declaration spread over four lines
C23_Witness ==
    /\ exited
    /\ status = 0
    /\ Len(Emitted) >= 1
    /\ \E i \in MatchStarts(input, 1) :
         \E j \in 1..Len(Matched(input, i)) : Matched(input, i)[j] = "\n"

\* a fragment of the grammar form: a type that ends in whitespace or '*',
\* then a name
GrammarForm(frag) ==
    LET s == Strip(frag)
    IN  \E k \in 1..(Len(s) - 1) :
            /\ s[k] \in Space \cup {"*"}
            /\ s[k + 1] \in Lower
            /\ \A j \in (k + 1)..Len(s) : s[j] \in NameChar

\* C24: ParamDecl accepts every fragment of the grammar form, and what it
\* constructs has a name of the grammar, a type that ends in whitespace or
\* '*', and a declaration that is the type followed by the name
C24_GrammarAccepted ==
    LET ds == Discovered
    IN  \A k \in 1..Len(ds) :
            LET frags == Fragments(ds[k])
            IN  \A i \in 1..Len(frags) :
                    LET p == ParamDecl(frags[i])
                    IN  /\ GrammarForm(frags[i]) => p.ok
                        /\ p.ok =>
                             /\ p.name # <<>>
                             /\ p.name[1] \in Lower
                             /\ \A j \in 1..Len(p.name) : p.name[j] \in NameChar
                             /\ p.type # <<>>
                             /\ p.type[Len(p.type)] \in Space \cup {"*"}
                             /\ p.decl = p.type \o p.name

\* the identifier the owning-handle expression starts with
HandleBase(bs) ==
    LET arrow == Find(bs, <<"-", ">">>)
    IN  IF arrow = 0 THEN bs ELSE SubSeq(bs, 1, arrow - 1)

\* C26: the identifier the owning-handle expression of an emitted bridge
\* starts with is the name of the first parameter of that bridge
C26_HandleBaseIsParameter ==
    LET ds == Discovered
        ws == Emitted
    IN  \A k \in 1..Len(ws) :
            HandleBase(ws[k].bs) = FuncOf(ds[k]).args[1].name

\* C27: for every fragment ParamDecl accepts the declaration it keeps is
\* the whole stripped fragment
C27_NoTextDiscarded ==
    LET ds == Discovered
    IN  \A k \in 1..Len(ds) :
            LET frags == Fragments(ds[k])
            IN  \A i \in 1..Len(frags) :
                    LET p == ParamDecl(frags[i])
                    IN  p.ok => p.decl = Strip(frags[i])

\* C28: the wrappers a run emits for declarations of different names have
\* context structures of different names
C28_StructNamesDistinct ==
    LET ds == Discovered
        ws == Emitted
    IN  \A j, k \in 1..Len(ws) :
            FuncOf(ds[j]).name # FuncOf(ds[k]).name =>
                ws[j].struct_name # ws[k].struct_name

\* ------------------------------------------- python/scripts/mkvenv.py: ensure
\* largest number of packages in one call of ensure()
MaxDeps == 2

Packages == {"meson", "sphinx"}

\* the values of the wheels_dir argument: None, or a directory
WheelsDirs == {"", "python/wheels"}

Range(seq) == {seq[i] : i \in 1..Len(seq)}

\* pip_install: the command line it builds, as far as the package sources go
pip_install(args, on, wd, devnull) ==
    [no_index |-> ~on, find_links |-> wd, args |-> args, devnull |-> devnull]

\* subprocess.run(full_args, check=True) returns: pip finds every package
\* installed already, in the directory of --find-links, or on the index
PipFinds(cmd) ==
    Range(cmd.args) \subseteq
        (site \cup (IF cmd.find_links # "" THEN wheels ELSE {})
              \cup (IF cmd.no_index THEN {} ELSE pypi))

\* the first pip_install of _do_ensure, passing the online argument on
FirstCommandOnline(specs, on, wd) ==
    pip_install(specs, on, wd, on /\ wd = "")

\* the first pip_install of _do_ensure: online=False, whatever online is
FirstCommand(specs, on, wd) ==
    pip_install(specs, FALSE, wd, on /\ wd = "")

\* the pip_install of the except clause: online=True, no wheels_dir
SecondCommand(specs) ==
    pip_install(specs, TRUE, "", FALSE)

\* a call ensure(dep_specs, online, wheels_dir) in some environment
EnsureInit ==
    /\ mpc = "first"
    /\ dep_specs \in UNION {[1..n -> Packages] : n \in 1..MaxDeps}
    /\ online \in BOOLEAN
    /\ wheels_dir \in WheelsDirs
    /\ site \in SUBSET Packages
    /\ wheels \in SUBSET Packages
    /\ pypi \in SUBSET Packages
    /\ pip_log = <<>>
    /\ raised = ""
    /\ scripts = <<>>
    /\ DockerIdle
    /\ TestEnvIdle
    /\ GenIdle
    /\ RtIdle

\* _do_ensure: the first pip_install succeeds, cases (A) and (B)
FirstInstallOk ==
    /\ mpc = "first"
    /\ LET cmd == FirstCommand(dep_specs, online, wheels_dir)
       IN  /\ PipFinds(cmd)
           /\ pip_log' = Append(pip_log, [cmd |-> cmd, ok |-> TRUE])
    /\ site' = site \cup Range(dep_specs)
    /\ mpc' = "scripts"
    /\ UNCHANGED <<dep_specs, online, wheels_dir, wheels, pypi, raised, scripts>>
    /\ UNCHANGED <<gen, rt, docker, testenv>>

\* _do_ensure: the first pip_install raises CalledProcessError, case (C):
\* the except clause goes on to PyPI when online, and re-raises otherwise
FirstInstallFails ==
    /\ mpc = "first"
    /\ LET cmd == FirstCommand(dep_specs, online, wheels_dir)
       IN  /\ ~PipFinds(cmd)
           /\ pip_log' = Append(pip_log, [cmd |-> cmd, ok |-> FALSE])
    /\ mpc' = IF online THEN "second" ELSE "raise"
    /\ UNCHANGED <<dep_specs, online, wheels_dir, site, wheels, pypi, raised, scripts>>
    /\ UNCHANGED <<gen, rt, docker, testenv>>

\* the except clause: pip_install(dep_specs, online=True) succeeds; return
SecondInstallOk ==
    /\ mpc = "second"
    /\ LET cmd == SecondCommand(dep_specs)
       IN  /\ PipFinds(cmd)
           /\ pip_log' = Append(pip_log, [cmd |-> cmd, ok |-> TRUE])
    /\ site' = site \cup Range(dep_specs)
    /\ mpc' = "done"
    /\ UNCHANGED <<dep_specs, online, wheels_dir, wheels, pypi, raised, scripts>>
    /\ UNCHANGED <<gen, rt, docker, testenv>>

\* the except clause: pip_install(dep_specs, online=True) raises
SecondInstallFails ==
    /\ mpc = "second"
    /\ LET cmd == SecondCommand(dep_specs)
       IN  /\ ~PipFinds(cmd)
           /\ pip_log' = Append(pip_log, [cmd |-> cmd, ok |-> FALSE])
    /\ mpc' = "raise"
    /\ UNCHANGED <<dep_specs, online, wheels_dir, site, wheels, pypi, raised, scripts>>
    /\ UNCHANGED <<gen, rt, docker, testenv>>

\* _do_ensure after the try statement: generate_console_scripts(...)
GenerateScripts ==
    /\ mpc = "scripts"
    /\ scripts' = dep_specs
    /\ mpc' = "done"
    /\ UNCHANGED <<dep_specs, online, wheels_dir, site, wheels, pypi, pip_log, raised>>
    /\ UNCHANGED <<gen, rt, docker, testenv>>

\* ensure: CalledProcessError left _do_ensure; raise Ouch(diagnose(...))
EnsureOuch ==
    /\ mpc = "raise"
    /\ raised' = "Ouch"
    /\ mpc' = "done"
    /\ UNCHANGED <<dep_specs, online, wheels_dir, site, wheels, pypi, pip_log, scripts>>
    /\ UNCHANGED <<gen, rt, docker, testenv>>

EnsureNext ==
    \/ FirstInstallOk
    \/ FirstInstallFails
    \/ SecondInstallOk
    \/ SecondInstallFails
    \/ GenerateScripts
    \/ EnsureOuch

EnsureSpec == EnsureInit /\ [][EnsureNext]_vars

\* C25: the first pip install of ensure() runs with the index disabled and
\* with wheels_dir; a pip install that may use the index runs only as the
\* second one, when online is true and the first one failed; when the first
\* one fails and online is false nothing else is tried and ensure raises Ouch
C25_LocalBeforeIndex ==
    /\ Len(pip_log) <= 2
    /\ mpc # "first" => pip_log # <<>>
    /\ pip_log # <<>> =>
         /\ pip_log[1].cmd.no_index
         /\ pip_log[1].cmd.find_links = wheels_dir
         /\ pip_log[1].cmd.args = dep_specs
    /\ \A i \in 1..Len(pip_log) :
         ~pip_log[i].cmd.no_index => (online /\ i = 2 /\ ~pip_log[1].ok)
    /\ (mpc = "done" /\ ~pip_log[1].ok) =>
         IF online THEN Len(pip_log) = 2 /\ (raised = "Ouch") = ~pip_log[2].ok
         ELSE Len(pip_log) = 1 /\ raised = "Ouch"

\* the vendored packages did not do, PyPI did
C25_Witness ==
    /\ mpc = "done"
    /\ online
    /\ wheels_dir # ""
    /\ Len(pip_log) = 2
    /\ ~pip_log[1].ok
    /\ ~pip_log[2].cmd.no_index
    /\ pip_log[2].ok
    /\ raised = ""

\* ------------------------------------------------ tests/docker/docker.py: Docker
\* largest number of calls of Docker.run in one process
MaxRuns == 2

\* uuid.uuid1().hex of the successive calls of Docker.run
Uuids == <<"uuid1", "uuid2", "uuid3">>

\* containers of other origin the daemon may know: one without labels and
\* one with the instance label of another process
Strangers == {<<>>,
              <<[uuid |-> "", keep |-> FALSE, state |-> "running"]>>,
              <<[uuid |-> "other", keep |-> FALSE, state |-> "running"]>>,
              <<[uuid |-> "", keep |-> FALSE, state |-> "running"],
                [uuid |-> "other", keep |-> FALSE, state |-> "running"]>>}

\* list.remove(x): the first occurrence goes
RECURSIVE Remove(_, _)
Remove(seq, x) ==
    IF seq = <<>> THEN <<>>
    ELSE IF Head(seq) = x THEN Tail(seq)
    ELSE <<Head(seq)>> \o Remove(Tail(seq), x)

\* 'docker ps -q': the ids of the running containers
RECURSIVE Running(_, _)
Running(cs, from) ==
    IF from > Len(cs) THEN <<>>
    ELSE (IF cs[from].state = "running" THEN <<from>> ELSE <<>>)
         \o Running(cs, from + 1)

\* a process that is about to construct its Docker object
DockerInit ==
    /\ dpc = "new"
    /\ instances = <<>>
    /\ containers \in Strangers
    /\ keep = FALSE
    /\ label = ""
    /\ runs = 0
    /\ ps = <<>>
    /\ terminated = <<>>
    /\ MkvenvIdle
    /\ TestEnvIdle
    /\ GenIdle
    /\ RtIdle

\* Docker.__init__: self._instances = []; atexit.register(self._kill_instances)
DockerNew ==
    /\ dpc = "new"
    /\ instances' = <<>>
    /\ dpc' = "ready"
    /\ UNCHANGED <<containers, keep, label, runs, ps, terminated>>
    /\ UNCHANGED <<gen, rt, mkvenv, testenv>>

\* Docker.run that appends the label whatever keep is
RunStartTracksAll ==
    /\ dpc = "ready"
    /\ runs < MaxRuns
    /\ \E k \in BOOLEAN :
         /\ keep' = k
         /\ instances' = Append(instances, Uuids[runs + 1])
    /\ label' = Uuids[runs + 1]
    /\ runs' = runs + 1
    /\ dpc' = "labelled"
    /\ UNCHANGED <<containers, ps, terminated>>
    /\ UNCHANGED <<gen, rt, mkvenv, testenv>>

\* Docker.run: label = uuid.uuid1().hex; if not keep: _instances.append(label)
RunStart ==
    /\ dpc = "ready"
    /\ runs < MaxRuns
    /\ \E k \in BOOLEAN :
         /\ keep' = k
         /\ instances' = IF k THEN instances ELSE Append(instances, Uuids[runs + 1])
    /\ label' = Uuids[runs + 1]
    /\ runs' = runs + 1
    /\ dpc' = "labelled"
    /\ UNCHANGED <<containers, ps, terminated>>
    /\ UNCHANGED <<gen, rt, mkvenv, testenv>>

\* self._do(["run", "--label", "com.qemu.instance.uuid=" + label] + cmd):
\* the daemon starts the container and subprocess.call waits for it
RunIssue ==
    /\ dpc = "labelled"
    /\ containers' = Append(containers,
                            [uuid |-> label, keep |-> keep, state |-> "running"])
    /\ dpc' = "waiting"
    /\ UNCHANGED <<instances, keep, label, runs, ps, terminated>>
    /\ UNCHANGED <<gen, rt, mkvenv, testenv>>

\* the same call when docker cannot start a container: _do will return
RunIssueFails ==
    /\ dpc = "labelled"
    /\ dpc' = "waiting"
    /\ UNCHANGED <<instances, containers, keep, label, runs, ps, terminated>>
    /\ UNCHANGED <<gen, rt, mkvenv, testenv>>

\* a running container comes to its end
ContainerExits ==
    /\ dpc \in {"ready", "labelled", "waiting", "atexit", "scan"}
    /\ \E i \in 1..Len(containers) :
         /\ containers[i].state = "running"
         /\ containers' = [containers EXCEPT ![i].state = "exited"]
    /\ UNCHANGED <<dpc, instances, keep, label, runs, ps, terminated>>
    /\ UNCHANGED <<gen, rt, mkvenv, testenv>>

\* _do returns; if not keep: self._instances.remove(label); return ret
RunReturn ==
    /\ dpc = "waiting"
    /\ \A i \in 1..Len(containers) :
         containers[i].uuid = label => containers[i].state # "running"
    /\ instances' = IF keep THEN instances ELSE Remove(instances, label)
    /\ label' = ""
    /\ dpc' = "ready"
    /\ UNCHANGED <<containers, keep, runs, ps, terminated>>
    /\ UNCHANGED <<gen, rt, mkvenv, testenv>>

\* an exception (KeyboardInterrupt) leaves Docker.run before the remove and
\* ends the process
Interrupt ==
    /\ dpc \in {"labelled", "waiting"}
    /\ dpc' = "atexit"
    /\ UNCHANGED <<instances, containers, keep, label, runs, ps, terminated>>
    /\ UNCHANGED <<gen, rt, mkvenv, testenv>>

\* the process ends between two runs
ProcessExit ==
    /\ dpc = "ready"
    /\ dpc' = "atexit"
    /\ UNCHANGED <<instances, containers, keep, label, runs, ps, terminated>>
    /\ UNCHANGED <<gen, rt, mkvenv, testenv>>

\* atexit: _kill_instances -> _do_kill_instances(True): 'docker ps -q'
KillInstances ==
    /\ dpc = "atexit"
    /\ ps' = Running(containers, 1)
    /\ dpc' = "scan"
    /\ UNCHANGED <<instances, containers, keep, label, runs, terminated>>
    /\ UNCHANGED <<gen, rt, mkvenv, testenv>>

\* one turn of the loop of _do_kill_instances: inspect, the three tests
\* that continue, then kill (if still running) and rm
KillOne ==
    /\ dpc = "scan"
    /\ ps # <<>>
    /\ LET i == Head(ps)
           c == containers[i]
       IN  IF c.uuid = "" \/ c.uuid \notin Range(instances)
           THEN UNCHANGED <<containers, terminated>>
           ELSE /\ terminated' = terminated
                      \o (IF c.state = "running"
                          THEN <<[op |-> "kill", id |-> i, uuid |-> c.uuid]>>
                          ELSE <<>>)
                      \o <<[op |-> "rm", id |-> i, uuid |-> c.uuid]>>
                /\ containers' = [containers EXCEPT ![i].state = "removed"]
    /\ ps' = Tail(ps)
    /\ UNCHANGED <<dpc, instances, keep, label, runs>>
    /\ UNCHANGED <<gen, rt, mkvenv, testenv>>

\* the loop of _do_kill_instances is through; the process is gone
KillDone ==
    /\ dpc = "scan"
    /\ ps = <<>>
    /\ dpc' = "exited"
    /\ UNCHANGED <<instances, containers, keep, label, runs, ps, terminated>>
    /\ UNCHANGED <<gen, rt, mkvenv, testenv>>

DockerNext ==
    \/ DockerNew
    \/ RunStart
    \/ RunIssue
    \/ RunIssueFails
    \/ ContainerExits
    \/ RunReturn
    \/ Interrupt
    \/ ProcessExit
    \/ KillInstances
    \/ KillOne
    \/ KillDone

DockerSpec == DockerInit /\ [][DockerNext]_vars

\* C29: the label of a run without keep is in _instances from before
\* 'docker run' is issued until it returns and not after that, the label of
\* a run with keep is never in _instances, and the cleanup at exit kills
\* and removes only containers whose label is in _instances
C29_TrackedWhileRunning ==
    /\ dpc \in {"labelled", "waiting"} => ((label \in Range(instances)) = ~keep)
    /\ dpc \in {"new", "ready"} => instances = <<>>
    /\ \A i \in 1..Len(containers) :
         /\ containers[i].keep => containers[i].uuid \notin Range(instances)
         /\ (containers[i].uuid = label /\ ~keep /\ dpc = "waiting") =>
               label \in Range(instances)
    /\ \A j \in 1..Len(terminated) : terminated[j].uuid \in Range(instances)
    /\ terminated # <<>> => dpc \in {"scan", "exited"}
    /\ \A i \in 1..Len(containers) :
         containers[i].state = "removed" =>
            \E j \in 1..Len(terminated) :
               terminated[j].op = "rm" /\ terminated[j].id = i

\* an interrupted run was cleaned up at exit; the container of the run with
\* keep and a running container of another origin were left alone
C29_Witness ==
    /\ dpc = "exited"
    /\ \E j \in 1..Len(terminated) : terminated[j].op = "kill"
    /\ \E i \in 1..Len(containers) :
         containers[i].keep /\ containers[i].state = "exited"
    /\ \E i \in 1..Len(containers) :
         containers[i].uuid = "other" /\ containers[i].state = "running"

\* -------------------------------------- tests/qemu-iotests/testenv.py: TestEnv
\* what the environment may hold when the object is constructed
Environs ==
    [PYTHONPATH : {<<>>, <<"/py">>},
     TEST_DIR   : {<<>>, <<"/test">>, <<"/sock">>},
     SOCK_DIR   : {<<>>, <<"">>, <<"/sock">>}]

\* os.getenv(name, default), None being <<>>
getenv(name, default) == IF environ[name] = <<>> THEN default ELSE environ[name]

\* the truth value of an optional string: None and '' are false
Truthy(v) == v # <<>> /\ v[1] # ""

\* os.path.join(os.getcwd(), 'scratch')
Scratch == "/cwd/scratch"

\* the directory tempfile.mkdtemp() creates
mkdtemp == "/tmp/tmp1"

\* the interpreter is about to construct a TestEnv
TestEnvInit ==
    /\ tpc = "new"
    /\ environ \in Environs
    /\ fs \in SUBSET {"/test", "/sock"}
    /\ pythonpath = ""
    /\ test_dir = ""
    /\ sock_dir = ""
    /\ tmp_sock_dir = FALSE
    /\ removed = <<>>
    /\ MkvenvIdle
    /\ DockerIdle
    /\ GenIdle
    /\ RtIdle

\* init_directories: self.pythonpath
InitPythonpath ==
    /\ tpc = "new"
    /\ pythonpath' = IF Truthy(getenv("PYTHONPATH", <<>>))
                     THEN "source_iotests:PYTHONPATH" ELSE "source_iotests"
    /\ tpc' = "test_dir"
    /\ UNCHANGED <<environ, fs, test_dir, sock_dir, tmp_sock_dir, removed>>
    /\ UNCHANGED <<gen, rt, mkvenv, docker>>

\* init_directories: self.test_dir and its mkdir(parents=True, exist_ok=True)
InitTestDir ==
    /\ tpc = "test_dir"
    /\ test_dir' = getenv("TEST_DIR", <<Scratch>>)[1]
    /\ fs' = fs \cup {test_dir'}
    /\ tpc' = "sock_dir"
    /\ UNCHANGED <<environ, pythonpath, sock_dir, tmp_sock_dir, removed>>
    /\ UNCHANGED <<gen, rt, mkvenv, docker>>

\* init_directories: self.sock_dir and self.tmp_sock_dir; with SOCK_DIR it
\* is test_dir that is created once more
InitSockDir ==
    /\ tpc = "sock_dir"
    /\ LET v == getenv("SOCK_DIR", <<>>)
       IN  IF Truthy(v)
           THEN /\ sock_dir' = v[1]
                /\ tmp_sock_dir' = FALSE
                /\ fs' = fs \cup {test_dir}
           ELSE /\ sock_dir' = mkdtemp
                /\ tmp_sock_dir' = TRUE
                /\ fs' = fs \cup {mkdtemp}
    /\ tpc' = "binaries"
    /\ UNCHANGED <<environ, pythonpath, test_dir, removed>>
    /\ UNCHANGED <<gen, rt, mkvenv, docker>>

\* the rest of __init__ runs through
InitBinaries ==
    /\ tpc = "binaries"
    /\ tpc' = "ready"
    /\ UNCHANGED <<environ, fs, pythonpath, test_dir, sock_dir, tmp_sock_dir, removed>>
    /\ UNCHANGED <<gen, rt, mkvenv, docker>>

\* init_binaries: sys.exit('Not such file: ...'); no object, no close()
InitExits ==
    /\ tpc = "binaries"
    /\ tpc' = "dead"
    /\ UNCHANGED <<environ, fs, pythonpath, test_dir, sock_dir, tmp_sock_dir, removed>>
    /\ UNCHANGED <<gen, rt, mkvenv, docker>>

\* close() that removes sock_dir whatever tmp_sock_dir is
rmtree_always(next) ==
    IF sock_dir \in fs
    THEN /\ fs' = fs \ {sock_dir}
         /\ removed' = Append(removed, sock_dir)
         /\ tpc' = next
    ELSE /\ tpc' = "error"
         /\ UNCHANGED <<fs, removed>>

\* the body of close(): if self.tmp_sock_dir: shutil.rmtree(self.sock_dir),
\* which raises FileNotFoundError when the directory is gone
close(next) ==
    IF tmp_sock_dir
    THEN IF sock_dir \in fs
         THEN /\ fs' = fs \ {sock_dir}
              /\ removed' = Append(removed, sock_dir)
              /\ tpc' = next
         ELSE /\ tpc' = "error"
              /\ UNCHANGED <<fs, removed>>
    ELSE /\ tpc' = next
         /\ UNCHANGED <<fs, removed>>

\* a call of close()
TestEnvClose ==
    /\ tpc = "ready"
    /\ close("closed")
    /\ UNCHANGED <<environ, pythonpath, test_dir, sock_dir, tmp_sock_dir>>
    /\ UNCHANGED <<gen, rt, mkvenv, docker>>

\* the with statement ends: __exit__ calls close()
TestEnvExit ==
    /\ tpc \in {"ready", "closed"}
    /\ close("exited")
    /\ UNCHANGED <<environ, pythonpath, test_dir, sock_dir, tmp_sock_dir>>
    /\ UNCHANGED <<gen, rt, mkvenv, docker>>

TestEnvNext ==
    \/ InitPythonpath
    \/ InitTestDir
    \/ InitSockDir
    \/ InitBinaries
    \/ InitExits
    \/ TestEnvClose
    \/ TestEnvExit

TestEnvSpec == TestEnvInit /\ [][TestEnvNext]_vars

\* close() has run at least once
Closed == tpc \in {"closed", "exited", "error"}

\* C30 as stated: close() removes sock_dir exactly when SOCK_DIR was unset,
\* the directory then being the one mkdtemp created, and never removes a
\* directory the environment supplied
C30_RemovedIffUnset ==
    /\ Closed => ((removed # <<>>) = (environ.SOCK_DIR = <<>> /\ tmp_sock_dir))
    /\ \A i \in 1..Len(removed) : removed[i] = mkdtemp
    /\ environ.SOCK_DIR \notin {<<>>, <<"">>} =>
          environ.SOCK_DIR[1] \notin Range(removed)

\* C30 as amended: close() removes sock_dir exactly when SOCK_DIR was unset
\* or empty, the directory then being the one mkdtemp created, and never
\* removes a directory the environment supplied
C30_RemovedIffOwnTemp ==
    /\ Closed => ((removed # <<>>) = (~Truthy(environ.SOCK_DIR) /\ tmp_sock_dir))
    /\ tpc \in {"binaries", "ready", "dead"} \cup {"closed", "exited", "error"} =>
          tmp_sock_dir = ~Truthy(environ.SOCK_DIR)
    /\ Len(removed) <= 1
    /\ \A i \in 1..Len(removed) : removed[i] = mkdtemp
    /\ \A i \in 1..Len(removed) :
          removed[i] \notin {"/sock", "/test", Scratch}
    /\ Truthy(environ.SOCK_DIR) =>
          /\ removed = <<>>
          /\ (tpc \in {"binaries", "ready", "dead"} \cup {"closed", "exited", "error"}) =>
                sock_dir = environ.SOCK_DIR[1]

\* SOCK_DIR was set, to the empty string, and the temporary directory made
\* in its place was removed when the with statement ended
C30_Witness ==
    /\ tpc = "exited"
    /\ environ.SOCK_DIR = <<"">>
    /\ tmp_sock_dir
    /\ removed = <<mkdtemp>>
    /\ mkdtemp \notin fs
====
